---- MODULE Spec2Model ----
(***************************************************************************)
(* Database connection lifecycle of the kanban server:                     *)
(* DatabaseConnectionManager (connect / retry loop / idle timer /          *)
(* disconnect), the driver (mongoose) state it reads and the events it     *)
(* listens to, and tryReconnect, which drives the same driver.             *)
(* One action per handler or per continuation after an await.              *)
(***************************************************************************)
EXTENDS Naturals, Sequences, FiniteSets

\* ---------------------------------------------------------------- bounds
\* connection attempts (async retry loops) created in one run
MaxAttempts == 2
\* close() calls of one kind (disconnect / idle close) awaited at once
MaxClosing == 1
\* calls awaiting the manager or the driver at once on behalf of the application
\* and of the health utilities: connectToDatabase() awaiting connect(),
\* tryReconnect() awaiting mongoose.connect, checkDatabaseConnection() awaiting
\* its ping
MaxAwaiting == 1

\* ------------------------------------------------------ program constants
\* const maxRetries = 3
maxRetries == 3
\* Math.min(1000 * Math.pow(2, retryCount), 10000)
BackoffBase == 1000
BackoffCap == 10000

\* this.MAX_IDLE_TIME = 30 * 60 * 1000
MAX_IDLE_TIME == 1800000

\* mongoose.connection.readyState
DISCONNECTED == 0
CONNECTED == 1
CONNECTING == 2
DISCONNECTING == 3

Events == {"connected", "disconnected", "error"}
\* url argument of connect(): absent/empty, or a connection string
Urls == {"", "mongodb://db"}
\* what a failed mongoose.connect() call rejects with
Causes == {"ECONNREFUSED", "ETIMEDOUT"}
\* the message of the Error connect() throws for a missing url (line 55)
ConfigError == "MongoDB URL is not defined. Check your environment variables."

VARIABLES
    prod,               \* process.env.NODE_ENV === 'production'
    mongoUrl,           \* process.env.MONGODB_URL ("" when it is not set)
    isConnected,        \* this.isConnected
    connectionTimeout,  \* this.connectionTimeout: "null", or a handle whose timer is "live" or "dead"
    orphanTimers,       \* pending timers this.connectionTimeout no longer refers to
    connectionPromise,  \* this.connectionPromise: 0 (null) or the id of an attempt
    attempts,           \* id -> the async retry loop created by connect()
    nAttempts,          \* attempts created so far
    readyState,         \* mongoose.connection.readyState
    listeners,          \* event -> number of listeners on mongoose.connection
    closing,            \* awaited close() calls: of disconnect() and of _closeIdleConnection()
    reconnecting,       \* tryReconnect() calls awaiting mongoose.connect
    pinging,            \* checkDatabaseConnection() calls awaiting their ping
    waiters,            \* connectToDatabase() calls awaiting dbConnectionManager.connect
    appListeners,       \* event -> number of listeners connectToDatabase() has added
    sigint,             \* connectToDatabase() has registered its SIGINT handler
    proc,               \* the process: "loading" app.js, "running", "exited" by
                        \* process.exit(1), or "stopped" by process.exit(0)
    appConnected,       \* app.js: let isConnected
    connectionError,    \* app.js: connectionError is not null
    recentAttempt,      \* app.js: now - lastConnectionAttempt < CONNECTION_CACHE_TIME
    usedSinceArmed,     \* a successful or cache-hit connect() has returned since the
                        \* timer of connectionTimeout was armed (FALSE when none is pending)
    armedInWindow,      \* the timer of connectionTimeout was armed at or after
                        \* lastConnectionAttempt, and recentAttempt still holds
    backoffBefore,      \* a backoff timer armed before lastConnectionAttempt is
                        \* pending
    last                \* the step just taken and what it observed

vars == <<prod, mongoUrl, isConnected, connectionTimeout, orphanTimers, connectionPromise,
          attempts, nAttempts, readyState, listeners, closing, reconnecting, pinging,
          waiters, appListeners, sigint, proc, appConnected, connectionError, recentAttempt,
          usedSinceArmed, armedInWindow, backoffBefore, last>>

\* the environment of the process, fixed while it runs
envVars == <<prod, mongoUrl>>

mgrVars == <<isConnected, connectionTimeout, orphanTimers, connectionPromise,
             attempts, nAttempts>>

appVars == <<waiters, appListeners, sigint>>

\* The steps carry no duration: any amount of time may lie between two of them.
\* What the clock does decide is the order in which pending timers run out, and
\* these variables keep what that order depends on.
timeVars == <<usedSinceArmed, armedInWindow, backoffBefore>>

reqVars == <<proc, appConnected, connectionError, recentAttempt>>

\* ------------------------------------------------------------- helpers
Min(a, b) == IF a < b THEN a ELSE b

RECURSIVE Pow2(_)
Pow2(n) == IF n = 0 THEN 1 ELSE 2 * Pow2(n - 1)

NoAttempt == [pc |-> "none", retryCount |-> 0, tries |-> 0,
              delays |-> <<>>, causes |-> <<>>, err |-> "", value |-> ""]

Settled(a) == a # 0 /\ attempts[a].pc \in {"resolved", "rejected"}
InFlight(a) == a # 0 /\ attempts[a].pc \in {"connecting", "backoff"}
\* the calls MaxAwaiting bounds
Awaiting == waiters + reconnecting + pinging
Loops == {a \in 1..MaxAttempts : InFlight(a)}
\* a backoff timer of a retry loop is pending (setTimeout(resolve, waitTime))
BackoffPending == \E a \in 1..MaxAttempts : attempts[a].pc = "backoff"
\* some connect() attempt has succeeded
HadSuccess == \E a \in 1..MaxAttempts : attempts[a].pc = "resolved"

\* a health status before anything is known; pingSuccess FALSE and error ""
\* stand for the absent properties
NoStatus == [connected |-> FALSE, state |-> "", pingSuccess |-> FALSE, error |-> ""]

\* no response sent; text is the message or error text a response body carries
NoResponse == [code |-> 0, status |-> "", text |-> ""]

\* no result of tryReconnect() yet
NoReply == [success |-> FALSE, message |-> ""]

NoLast == [op |-> "init", url |-> "", path |-> "", ret |-> 0, retSettled |-> FALSE,
           cleaned |-> FALSE, preFlag |-> FALSE, preRS |-> 0, prePromise |-> 0,
           preLoops |-> 0, preTimers |-> 0, preListeners |-> 0, preClosing |-> 0,
           preReconnecting |-> 0, preHandle |-> "null", sinceUse |-> 0, att |-> 0, tries |-> 0, delays |-> <<>>,
           causes |-> <<>>, err |-> "", ok |-> FALSE, closeIssued |-> FALSE,
           status |-> NoStatus, result |-> NoStatus, pinged |-> FALSE,
           served |-> 0, route |-> "", layers |-> <<>>, outcome |-> "", code |-> 0,
           reply |-> NoReply, resp |-> NoResponse, readRS |-> 0]

\* number of idle timers pending in the runtime
PendingTimers == orphanTimers + (IF connectionTimeout = "live" THEN 1 ELSE 0)

\* number of listeners attached to mongoose.connection
ListenerCount ==
    listeners["connected"] + listeners["disconnected"] + listeners["error"]
    + appListeners["connected"] + appListeners["disconnected"] + appListeners["error"]

\* number of close() calls the manager is awaiting
ClosingCount == closing.disconnect + closing.idle

\* the snapshot every step records of the state it started from
Pre(op) == [NoLast EXCEPT !.op = op, !.preFlag = isConnected, !.preRS = readyState,
                          !.prePromise = connectionPromise,
                          !.preLoops = Cardinality(Loops),
                          !.preTimers = PendingTimers,
                          !.preListeners = ListenerCount,
                          !.preClosing = ClosingCount,
                          !.preReconnecting = reconnecting,
                          !.preHandle = connectionTimeout]

\* ------------------------------------------------------------- driver
\* The driver emits the event named after its new state when the state changes;
\* the manager's listeners (lines 172-192) then update the flag.
FlagAfterEmit(ev, flag) ==
    IF listeners[ev] = 0 THEN flag
    ELSE IF ev = "connected" THEN TRUE
    ELSE IF ev = "disconnected" THEN FALSE
    ELSE flag

FlagAfterState(rs, flag) ==
    IF rs = readyState THEN flag
    ELSE IF rs = CONNECTED THEN FlagAfterEmit("connected", flag)
    ELSE IF rs = DISCONNECTED THEN FlagAfterEmit("disconnected", flag)
    ELSE flag

\* mongoose.connect() called: the driver starts connecting unless it is connected
StateOnConnectCall == IF readyState = CONNECTED THEN CONNECTED ELSE CONNECTING
\* connection.close() called: a connected driver starts disconnecting
StateOnCloseCall == IF readyState = CONNECTED THEN DISCONNECTING ELSE readyState

\* ------------------------------------------------------------- manager
\* the environment test never recognising production
IsServerlessNever == FALSE

\* process.env.NODE_ENV === 'production'
IsServerless == prod

\* the in-flight check dropped: every call goes on to start its own attempt
JoinsNever == FALSE

\* if (this.connectionPromise) return this.connectionPromise
JoinsInFlight == connectionPromise # 0

\* if (this.isConnected && readyState === 1)
IsCacheHit == isConnected /\ readyState = CONNECTED

\* the cleanup test forgetting the disconnecting state
NeedsCleanupClosedOnly == readyState = DISCONNECTED

\* if (readyState === 0 || readyState === 3)
NeedsCleanup == readyState \in {DISCONNECTED, DISCONNECTING}

\* if (!url)
UrlMissing(url) == url = ""

\* the delay computed from the number of failures before this one
WaitTimeZeroBased(retryCount) == Min(BackoffBase * Pow2(retryCount - 1), BackoffCap)

\* the delay growing by the base with every failure instead of doubling
WaitTimeLinear(retryCount) == Min(BackoffBase * (retryCount + 1), BackoffCap)

\* const waitTime = Math.min(1000 * Math.pow(2, retryCount), 10000), retryCount
\* already incremented for the failure just seen
WaitTime(retryCount) == Min(BackoffBase * Pow2(retryCount), BackoffCap)

\* the bound compared with > instead of >=: one try too many
ExhaustedLate(retryCount) == retryCount > maxRetries

\* if (retryCount >= maxRetries) throw err
Exhausted(retryCount) == retryCount >= maxRetries

\* the clearTimeout of _resetIdleTimeout() left out
ClearsPreviousNever == FALSE

\* if (this.connectionTimeout) clearTimeout(this.connectionTimeout)
ClearsPrevious == TRUE

\* _resetIdleTimeout(): the handle and the orphaned timers after the call
HandleAfterReset == IF IsServerless THEN connectionTimeout ELSE "live"
OrphansAfterReset ==
    IF IsServerless THEN orphanTimers
    ELSE IF connectionTimeout = "live" /\ ~ClearsPrevious THEN orphanTimers + 1
    ELSE orphanTimers

\* setTimeout(() => this._closeIdleConnection(), this.MAX_IDLE_TIME): the timer
\* of connectionTimeout can be the next one to run out. A timer armed at or
\* after lastConnectionAttempt runs out MAX_IDLE_TIME later, and
\* CONNECTION_CACHE_TIME after lastConnectionAttempt comes before that.
TimerDue == connectionTimeout = "live" /\ ~armedInWindow

\* the least time between the latest use and the firing of a timer: the whole
\* delay of the timer when no use came after its arming
SinceUseAtFire(usedAfter) == IF usedAfter THEN 0 ELSE MAX_IDLE_TIME

\* what is known of a timer stays known only while the timer is pending
WhilePending(handle, known) == IF handle = "live" THEN known ELSE FALSE

\* lastConnectionAttempt = now (stamped): a timer armed earlier was not armed
\* in the new window, and the backoff timers pending were armed before it
ArmedInWindowAfterStamp(stamped) == IF stamped THEN FALSE ELSE armedInWindow
BackoffBeforeAfterStamp(stamped) == IF stamped THEN BackoffPending ELSE backoffBefore

\* the callers' own guard: if (process.env.NODE_ENV !== 'production') this._resetIdleTimeout()
CallsReset == ~IsServerless

\* The async function of lines 50-123 throws before its first await when the url
\* is missing: its finally block (this.connectionPromise = null) has run before
\* `this.connectionPromise = (async () => {...})()` stores the rejected promise.
PromiseAfterSyncThrow(id) == id

\* _setupConnectionEventHandlers(): removeAllListeners(e) then on(e, ...) for each event
ListenersAfterSetup == [e \in Events |-> 1]

\* mongoose.connections.forEach(conn => conn.removeAllListeners())
ListenersAfterCleanup == [e \in Events |-> 0]

\* the manager module loaded: `new DatabaseConnectionManager()`, nothing connected
Constructed ==
    /\ prod \in BOOLEAN
    /\ mongoUrl \in Urls
    /\ isConnected = FALSE
    /\ connectionTimeout = "null"
    /\ orphanTimers = 0
    /\ connectionPromise = 0
    /\ attempts = [a \in 1..MaxAttempts |-> NoAttempt]
    /\ nAttempts = 0
    /\ readyState = DISCONNECTED
    /\ listeners = [e \in Events |-> 0]
    /\ closing = [disconnect |-> 0, idle |-> 0]
    /\ reconnecting = 0
    /\ pinging = 0
    /\ usedSinceArmed = FALSE
    /\ armedInWindow = FALSE
    /\ backoffBefore = FALSE
    /\ waiters = 0
    /\ appListeners = [e \in Events |-> 0]
    /\ sigint = FALSE
    /\ appConnected = FALSE
    /\ connectionError = FALSE
    /\ recentAttempt = FALSE
    /\ last = NoLast

\* the manager, the driver and the health utilities on their own, in a running
\* process
Init == Constructed /\ proc = "running"

\* the application: app.js is about to be loaded
AppInit == Constructed /\ proc = "loading"

\* the guard dropped: connectToDatabase() adds its listener on every call
AddsListenerAlways(count) == TRUE

\* if (mongoose.connection.listenerCount(e) === 0) mongoose.connection.on(e, ...)
AddsListener(count) == count = 0

\* lines 39-50 of connectToDatabase(), run with mgr the manager's listeners and
\* app its own: one listener for 'error' and one for 'disconnected', each under
\* the listenerCount guard
AppListenersAfterEnsure(mgr, app) ==
    [e \in Events |->
        IF e \in {"error", "disconnected"} /\ AddsListener(mgr[e] + app[e])
        THEN app[e] + 1 ELSE app[e]]

\* lines 53-60 of connectToDatabase(): outside production the SIGINT handler is
\* registered unless the process already has one
SigintAfterEnsure(registered) == IF IsServerless THEN registered ELSE TRUE

\* the continuations of n connectToDatabase() calls, one after the other
RECURSIVE AppListenersAfterCalls(_, _, _)
AppListenersAfterCalls(mgr, app, n) ==
    IF n = 0 THEN app
    ELSE AppListenersAfterCalls(mgr, AppListenersAfterEnsure(mgr, app), n - 1)

\* dbConnectionManager.connect(url, options), up to the first await of the attempt
\* it starts. rec is the record of the step: its op is "connect" for a direct
\* call; for the call of line 36 of connectToDatabase() the continuation of
\* connectToDatabase() follows at once on a cache hit and waits for the attempt
\* otherwise. The application's own variables are left to the caller; a call
\* through connectToDatabase() comes from initializeDatabase(), which has just
\* set lastConnectionAttempt. The mongoose.disconnect() of the cleanup is not
\* awaited and finds the driver closed or closing: it changes no state of the
\* driver before the mongoose.connect call that follows it.
ManagerConnect(url, rec) ==
    LET viaApp == rec.op # "connect" IN
    IF JoinsInFlight THEN
        /\ viaApp /\ ~Settled(connectionPromise) => Awaiting < MaxAwaiting
        /\ waiters' = IF viaApp /\ ~Settled(connectionPromise) THEN waiters + 1
                      ELSE waiters
        /\ last' = [rec EXCEPT !.url = url, !.path = "join",
                        !.ret = connectionPromise,
                        !.retSettled = Settled(connectionPromise)]
        /\ armedInWindow' = ArmedInWindowAfterStamp(viaApp)
        /\ backoffBefore' = BackoffBeforeAfterStamp(viaApp)
        /\ UNCHANGED <<envVars, pinging, usedSinceArmed, mgrVars, readyState, listeners, closing, reconnecting,
                       appListeners, sigint>>
    ELSE IF IsCacheHit THEN
        /\ connectionTimeout' = IF CallsReset THEN HandleAfterReset ELSE connectionTimeout
        /\ orphanTimers' = IF CallsReset THEN OrphansAfterReset ELSE orphanTimers
        /\ appListeners' = IF viaApp THEN AppListenersAfterEnsure(listeners, appListeners)
                           ELSE appListeners
        /\ sigint' = IF viaApp THEN SigintAfterEnsure(sigint) ELSE sigint
        /\ usedSinceArmed' = IF CallsReset THEN FALSE ELSE connectionTimeout = "live"
        /\ armedInWindow' = IF CallsReset
                             THEN WhilePending(HandleAfterReset, viaApp \/ recentAttempt)
                             ELSE ArmedInWindowAfterStamp(viaApp)
        /\ backoffBefore' = BackoffBeforeAfterStamp(viaApp)
        /\ last' = [rec EXCEPT !.url = url, !.path = "hit", !.ok = TRUE]
        /\ UNCHANGED <<envVars, pinging, isConnected, connectionPromise, attempts, nAttempts,
                       readyState, listeners, closing, reconnecting, waiters>>
    ELSE
        /\ nAttempts < MaxAttempts
        /\ viaApp => Awaiting < MaxAwaiting
        /\ LET id == nAttempts + 1
               cleanup == NeedsCleanup
               flag1 == IF cleanup THEN FALSE ELSE isConnected
           IN /\ listeners' = IF cleanup THEN ListenersAfterCleanup ELSE listeners
              /\ appListeners' = IF cleanup THEN ListenersAfterCleanup ELSE appListeners
              /\ nAttempts' = id
              /\ IF UrlMissing(url) THEN
                    /\ attempts' = [attempts EXCEPT ![id] =
                            [NoAttempt EXCEPT !.pc = "rejected", !.err = ConfigError]]
                    /\ isConnected' = FALSE
                    /\ connectionPromise' = PromiseAfterSyncThrow(id)
                    /\ readyState' = readyState
                    /\ waiters' = waiters
                    /\ last' = [rec EXCEPT !.url = url, !.path = "config",
                                    !.ret = id, !.cleaned = cleanup, !.att = id,
                                    !.err = ConfigError]
                 ELSE
                    /\ attempts' = [attempts EXCEPT ![id] =
                            [NoAttempt EXCEPT !.pc = "connecting", !.tries = 1]]
                    /\ isConnected' = flag1
                    /\ connectionPromise' = id
                    /\ readyState' = StateOnConnectCall
                    /\ waiters' = IF viaApp THEN waiters + 1 ELSE waiters
                    /\ last' = [rec EXCEPT !.url = url, !.path = "start",
                                    !.ret = id, !.cleaned = cleanup, !.att = id,
                                    !.tries = 1]
        /\ armedInWindow' = ArmedInWindowAfterStamp(viaApp)
        /\ backoffBefore' = BackoffBeforeAfterStamp(viaApp)
        /\ UNCHANGED <<envVars, pinging, usedSinceArmed, connectionTimeout, orphanTimers, closing,
                       reconnecting, sigint>>

\* connect(url, options) called on the manager directly
Connect(url) == ManagerConnect(url, Pre("connect")) /\ UNCHANGED reqVars

\* connectToDatabase() with url the value of process.env.MONGODB_URL: it throws
\* when the variable is not set and calls the manager otherwise
ConnectToDatabase(url, rec) ==
    IF UrlMissing(url) THEN
        /\ last' = [rec EXCEPT !.url = url, !.path = "env",
                        !.err = "MONGODB_URL environment variable is not defined"]
        /\ armedInWindow' = ArmedInWindowAfterStamp(TRUE)
        /\ backoffBefore' = BackoffBeforeAfterStamp(TRUE)
        /\ UNCHANGED <<envVars, pinging, usedSinceArmed, mgrVars, readyState, listeners, closing,
                       reconnecting, appVars>>
    ELSE ManagerConnect(url, rec)

\* how `await connectToDatabase()` ends for a call made now: "true" when it
\* resolves at once (cache hit), "false" when it rejects at once (no url, or the
\* manager hands out a promise that is already rejected), "pending" when it
\* waits for an attempt
ConnectOutcome(url) ==
    IF UrlMissing(url) THEN "false"
    ELSE IF JoinsInFlight THEN
        IF Settled(connectionPromise) THEN "false" ELSE "pending"
    ELSE IF IsCacheHit THEN "true"
    ELSE "pending"

\* the two early returns of initializeDatabase(forceReconnect)
ReturnsCached(force) == appConnected /\ ~force
SkipsAttempt(force) == connectionError /\ recentAttempt /\ ~force

\* what initializeDatabase(forceReconnect) returns for a call made now
InitOutcome(force, url) ==
    IF ReturnsCached(force) THEN "true"
    ELSE IF SkipsAttempt(force) THEN "false"
    ELSE ConnectOutcome(url)

\* the catch block of initializeDatabase(): a failed connection is fatal outside
\* production
ProcAfterFailure == IF IsServerless THEN "running" ELSE "exited"

\* initializeDatabase(forceReconnect), up to `await connectToDatabase()` and
\* beyond it when that settles at once; proc is left to the caller
InitializeDatabase(force, url, rec) ==
    IF ReturnsCached(force) \/ SkipsAttempt(force) THEN
        /\ last' = [rec EXCEPT !.url = url,
                        !.path = IF ReturnsCached(force) THEN "cached" ELSE "skipped"]
        /\ UNCHANGED <<envVars, pinging, timeVars, mgrVars, readyState, listeners, closing,
                       reconnecting, appVars, appConnected, connectionError,
                       recentAttempt>>
    ELSE
        /\ recentAttempt' = TRUE
        /\ ConnectToDatabase(url, rec)
        /\ LET out == ConnectOutcome(url)
           IN /\ connectionError' = (out = "false")
              /\ appConnected' = IF out = "pending" THEN appConnected ELSE out = "true"

\* app.js is loaded: outside production it calls initializeDatabase() at once
Startup(url) ==
    /\ proc = "loading"
    /\ IF IsServerless THEN
          /\ proc' = "running"
          /\ last' = [Pre("startup") EXCEPT !.outcome = "none"]
          /\ UNCHANGED <<envVars, pinging, timeVars, mgrVars, readyState, listeners, closing,
                         reconnecting, appVars, appConnected, connectionError,
                         recentAttempt>>
       ELSE
          /\ InitializeDatabase(FALSE, url,
                                [Pre("startup") EXCEPT !.outcome = InitOutcome(FALSE, url)])
          /\ proc' = IF InitOutcome(FALSE, url) = "false" THEN ProcAfterFailure
                     ELSE "running"

\* the paths of the requests followed: a route of the /api/v1 router, a path
\* under /api/v1 that no route matches, the health check of app.js without and
\* with ?checkDb=true, and a path nothing is registered for
Paths == {"/api/v1/auth/login", "/api/v1/unknown", "/health", "/health?checkDb=true",
          "/other"}

\* the layers of app.js that can take a request, in the order of their app.use /
\* app.get calls (lines 54, 57, 133)
Layers == <<"router", "health", "dbMiddleware">>

\* whether a layer answers the request itself (TRUE) or may pass it on
Answers(layer, path) ==
    IF layer = "router" THEN path = "/api/v1/auth/login"
    ELSE IF layer = "health" THEN path \in {"/health", "/health?checkDb=true"}
    ELSE FALSE

\* whether the database middleware takes the connection check for this request
\* on itself: not for /health, and only in production or after an error
ChecksConnection(path) ==
    /\ path \notin {"/health", "/health?checkDb=true"}
    /\ IsServerless \/ connectionError

\* the layers a request runs through, in order, up to the one that answers it
RECURSIVE LayersRun(_, _, _)
LayersRun(order, path, blocked) ==
    IF order = <<>> THEN <<>>
    ELSE IF Answers(Head(order), path) THEN <<Head(order)>>
    ELSE IF Head(order) = "dbMiddleware" /\ blocked THEN <<Head(order)>>
    ELSE <<Head(order)>> \o LayersRun(Tail(order), path, blocked)

\* position of a layer in a sequence of layers (0 when absent)
RECURSIVE IndexOf(_, _)
IndexOf(seq, x) ==
    IF seq = <<>> THEN 0
    ELSE IF Head(seq) = x THEN 1
    ELSE IF IndexOf(Tail(seq), x) = 0 THEN 0 ELSE 1 + IndexOf(Tail(seq), x)

\* one request through app.js, up to its first wait. The router's handlers and the
\* 404 of express are not followed further; code 0 stands for a response that
\* is not sent by this step (left to the handler, waiting for the attempt, or
\* lost with the process)
Request(path, url) ==
    /\ proc = "running"
    /\ LET free == LayersRun(Layers, path, FALSE)
           mwRuns == IndexOf(free, "dbMiddleware") > 0
           checks == mwRuns /\ ChecksConnection(path)
           forced == Answers("health", path) /\ IndexOf(free, "health") > 0
                     /\ path = "/health?checkDb=true" /\ readyState # CONNECTED
           out == IF checks THEN InitOutcome(FALSE, url)
                  ELSE IF forced THEN InitOutcome(TRUE, url)
                  ELSE "none"
           run == LayersRun(Layers, path, checks /\ out # "true")
           rec == [Pre("request") EXCEPT
                     !.route = path,
                     !.layers = run,
                     !.outcome = out,
                     !.code = IF out = "false" /\ ProcAfterFailure = "exited" THEN 0
                              ELSE IF checks /\ out = "false" THEN 503
                              ELSE IF checks /\ out = "pending" THEN 0
                              ELSE IF forced /\ out = "pending" THEN 0
                              ELSE IF IndexOf(run, "health") > 0
                                      /\ Answers("health", path) THEN 200
                              ELSE IF IndexOf(run, "router") > 0
                                      /\ Answers("router", path) THEN 0
                              ELSE 404]
       IN IF checks \/ forced THEN
             /\ InitializeDatabase(forced, url, rec)
             /\ proc' = IF out = "false" THEN ProcAfterFailure ELSE proc
          ELSE
             /\ last' = rec
             /\ UNCHANGED <<envVars, pinging, timeVars, mgrVars, readyState, listeners, closing,
                            reconnecting, appVars, reqVars>>

\* CONNECTION_CACHE_TIME (30 seconds) has passed since lastConnectionAttempt:
\* now - lastConnectionAttempt < CONNECTION_CACHE_TIME no longer holds. A backoff
\* timer armed before lastConnectionAttempt (its delay is at most BackoffCap)
\* has run out by then; one armed after it, and the idle timer, may still be
\* pending.
CacheTimePasses ==
    /\ proc = "running"
    /\ recentAttempt
    /\ ~backoffBefore
    /\ recentAttempt' = FALSE
    /\ armedInWindow' = FALSE
    /\ last' = Pre("cacheTime")
    /\ UNCHANGED <<envVars, pinging, usedSinceArmed, backoffBefore, mgrVars, readyState, listeners, closing,
                   reconnecting, appVars, proc, appConnected, connectionError>>

\* `await mongoose.connect(url, finalOptions)` resolves: lines 88-99, then finally
AttemptConnected(a) ==
    /\ attempts[a].pc = "connecting"
    /\ readyState' = CONNECTED
    /\ isConnected' = TRUE
    /\ listeners' = ListenersAfterSetup
    /\ connectionTimeout' = IF CallsReset THEN HandleAfterReset ELSE connectionTimeout
    /\ orphanTimers' = IF CallsReset THEN OrphansAfterReset ELSE orphanTimers
    /\ attempts' = [attempts EXCEPT ![a] =
            [NoAttempt EXCEPT !.pc = "resolved", !.value = "mongoose"]]
    /\ connectionPromise' = 0
    /\ last' = [Pre("connected") EXCEPT !.att = a, !.tries = attempts[a].tries,
                    !.delays = attempts[a].delays, !.causes = attempts[a].causes,
                    !.ok = TRUE, !.served = waiters]
    /\ waiters' = 0
    /\ appListeners' = AppListenersAfterCalls(ListenersAfterSetup, ListenersAfterCleanup,
                                              waiters)
    /\ sigint' = IF waiters > 0 THEN SigintAfterEnsure(sigint) ELSE sigint
    /\ usedSinceArmed' = IF CallsReset THEN FALSE ELSE connectionTimeout = "live"
    /\ armedInWindow' = IF CallsReset THEN WhilePending(HandleAfterReset, recentAttempt)
                         ELSE armedInWindow
    /\ appConnected' = IF waiters > 0 THEN TRUE ELSE appConnected
    /\ UNCHANGED <<envVars, pinging, proc, connectionError, recentAttempt, backoffBefore,
                   nAttempts, closing, reconnecting>>

\* `await mongoose.connect(url, finalOptions)` rejects with cause: lines 100-113,
\* and lines 115-122 when the retries are exhausted
AttemptFailed(a, cause) ==
    /\ attempts[a].pc = "connecting"
    /\ readyState # CONNECTED
    /\ readyState' = DISCONNECTED
    /\ LET rc == attempts[a].retryCount + 1
           causes == Append(attempts[a].causes, cause)
           flag1 == FlagAfterState(DISCONNECTED, isConnected)
       IN IF Exhausted(rc) THEN
             /\ attempts' = [attempts EXCEPT ![a] =
                    [NoAttempt EXCEPT !.pc = "rejected", !.retryCount = rc,
                                      !.tries = attempts[a].tries, !.err = cause]]
             /\ isConnected' = FALSE
             /\ connectionPromise' = 0
             /\ waiters' = 0
             /\ connectionError' = IF waiters > 0 THEN TRUE ELSE connectionError
             /\ appConnected' = IF waiters > 0 THEN FALSE ELSE appConnected
             /\ proc' = IF waiters > 0 THEN ProcAfterFailure ELSE proc
             /\ last' = [Pre("failed") EXCEPT !.att = a, !.tries = attempts[a].tries,
                            !.delays = attempts[a].delays, !.causes = causes,
                            !.err = cause, !.served = waiters]
          ELSE
             /\ attempts' = [attempts EXCEPT ![a] =
                    [@ EXCEPT !.pc = "backoff", !.retryCount = rc, !.causes = causes,
                              !.delays = Append(@, WaitTime(rc))]]
             /\ isConnected' = flag1
             /\ connectionPromise' = connectionPromise
             /\ waiters' = waiters
             /\ UNCHANGED <<proc, connectionError, appConnected>>
             /\ last' = [Pre("retry") EXCEPT !.att = a, !.tries = attempts[a].tries,
                            !.delays = Append(attempts[a].delays, WaitTime(rc)),
                            !.causes = causes]
    /\ UNCHANGED <<envVars, pinging, recentAttempt, timeVars, appListeners, sigint, connectionTimeout,
                   orphanTimers, nAttempts, listeners, closing, reconnecting>>

\* the delay of the backoff setTimeout has run out: the loop calls
\* mongoose.connect again
BackoffDone(a) ==
    /\ attempts[a].pc = "backoff"
    /\ attempts' = [attempts EXCEPT ![a] =
            [@ EXCEPT !.pc = "connecting", !.tries = @ + 1]]
    /\ readyState' = StateOnConnectCall
    /\ last' = [Pre("backoffDone") EXCEPT !.att = a, !.tries = attempts[a].tries + 1,
                    !.delays = attempts[a].delays, !.causes = attempts[a].causes]
    /\ backoffBefore' = (backoffBefore /\ \E b \in 1..MaxAttempts \ {a} :
                                              attempts[b].pc = "backoff")
    /\ UNCHANGED <<envVars, pinging, reqVars, usedSinceArmed, armedInWindow, appVars, isConnected,
                   connectionTimeout, orphanTimers, connectionPromise, nAttempts, listeners,
                   closing, reconnecting>>

\* clearTimeout(this.connectionTimeout): the handle is kept, its timer is dead
HandleAfterClear == IF connectionTimeout = "live" THEN "dead" ELSE connectionTimeout

\* the close issued whatever the flag says
ClosesAlways == TRUE

\* if (this.isConnected) of disconnect() and of _closeIdleConnection()
ClosesSession == isConnected

\* what the driver reports once a close() has finished: disconnected, unless a
\* connect issued after the close has taken the connection over
StatesAfterClose ==
    IF readyState \in {CONNECTED, CONNECTING} THEN {DISCONNECTED, readyState}
    ELSE {DISCONNECTED}

\* `await mongoose.connection.close(); this.isConnected = false;` the flag once the
\* close has resolved (a rejected close is caught and logged, the flag is kept)
FlagAfterClose(flag) == FALSE

\* disconnect(), up to `await mongoose.connection.close()`
\* rec is the record of the step; the application's own variables are left to
\* the caller
ManagerDisconnect(rec) ==
    /\ connectionTimeout' = HandleAfterClear
    /\ IF ClosesSession THEN
          /\ closing.disconnect < MaxClosing
          /\ closing' = [closing EXCEPT !.disconnect = @ + 1]
          /\ readyState' = StateOnCloseCall
          /\ last' = [rec EXCEPT !.path = "closing", !.closeIssued = TRUE]
       ELSE
          /\ last' = [rec EXCEPT !.path = "done", !.ok = TRUE]
          /\ UNCHANGED <<closing, readyState>>
    /\ usedSinceArmed' = WhilePending(HandleAfterClear, usedSinceArmed)
    /\ armedInWindow' = WhilePending(HandleAfterClear, armedInWindow)
    /\ UNCHANGED <<envVars, pinging, backoffBefore, appVars, isConnected, orphanTimers, connectionPromise, attempts,
                   nAttempts, listeners, reconnecting>>

\* disconnect() called on the manager directly
Disconnect == ManagerDisconnect(Pre("disconnect")) /\ UNCHANGED reqVars

\* SIGINT is delivered and the handler connectToDatabase() registered runs:
\* `await dbConnectionManager.disconnect()`, then process.exit(0) at once when
\* disconnect() had nothing to close
Sigint ==
    /\ proc = "running"
    /\ sigint
    /\ ManagerDisconnect(Pre("sigint"))
    /\ proc' = IF ClosesSession THEN proc ELSE "stopped"
    /\ UNCHANGED <<appConnected, connectionError, recentAttempt>>

\* the awaited close() of disconnect() (kind "disconnect", lines 205-210) or of
\* _closeIdleConnection() (kind "idle", lines 153-158) resolves (ok) or rejects
CloseResolved(kind, ok) ==
    /\ closing[kind] > 0
    /\ closing' = [closing EXCEPT ![kind] = @ - 1]
    /\ IF ok THEN
          \E rs \in StatesAfterClose :
              /\ readyState' = rs
              /\ isConnected' = FlagAfterClose(FlagAfterState(rs, isConnected))
       ELSE
          UNCHANGED <<readyState, isConnected>>
    /\ last' = [Pre(IF kind = "idle" THEN "idleClosed" ELSE "disconnected") EXCEPT
                    !.path = "done", !.ok = ok, !.closeIssued = TRUE]
    /\ UNCHANGED <<envVars, pinging, timeVars, appVars, connectionTimeout, orphanTimers,
                   connectionPromise, attempts, nAttempts, listeners, reconnecting>>

\* a close awaited by the manager's own caller settles
CloseDone(kind, ok) == CloseResolved(kind, ok) /\ UNCHANGED reqVars

\* the close awaited by the SIGINT handler settles (disconnect() catches a
\* rejection): the handler goes on to process.exit(0)
SigintCloseDone(ok) ==
    /\ CloseResolved("disconnect", ok)
    /\ proc' = "stopped"
    /\ UNCHANGED <<appConnected, connectionError, recentAttempt>>

\* the delay of an idle timer has run out and it fires: _closeIdleConnection(),
\* up to its await. The timer is the one of connectionTimeout (ofHandle) or one
\* that a reset left pending without a handle. Whatever else is pending may
\* outlast it: a backoff timer is armed while connectionPromise is set, when
\* connect() arms no idle timer, so it was armed later than this one, by any
\* amount of time.
IdleFire ==
    /\ \E ofHandle \in BOOLEAN :
          /\ IF ofHandle THEN
                /\ TimerDue
                /\ connectionTimeout' = "dead"
                /\ usedSinceArmed' = WhilePending("dead", usedSinceArmed)
                /\ armedInWindow' = WhilePending("dead", armedInWindow)
                /\ UNCHANGED orphanTimers
             ELSE
                /\ orphanTimers > 0
                /\ orphanTimers' = orphanTimers - 1
                /\ UNCHANGED <<connectionTimeout, usedSinceArmed, armedInWindow>>
          /\ LET rec == [Pre("idleFire") EXCEPT
                            !.sinceUse = SinceUseAtFire(~ofHandle \/ usedSinceArmed)]
             IN IF ClosesSession THEN
                   /\ closing.idle < MaxClosing
                   /\ closing' = [closing EXCEPT !.idle = @ + 1]
                   /\ readyState' = StateOnCloseCall
                   /\ last' = [rec EXCEPT !.path = "closing", !.closeIssued = TRUE]
                ELSE
                   /\ last' = [rec EXCEPT !.path = "done", !.ok = TRUE]
                   /\ UNCHANGED <<closing, readyState>>
    /\ UNCHANGED <<envVars, pinging, reqVars, backoffBefore, appVars, isConnected, connectionPromise, attempts, nAttempts,
                   listeners, reconnecting>>

\* the driver loses its session and emits 'disconnected'
DriverLost ==
    /\ readyState = CONNECTED
    /\ readyState' = DISCONNECTED
    /\ isConnected' = FlagAfterState(DISCONNECTED, isConnected)
    /\ last' = Pre("lost")
    /\ UNCHANGED <<envVars, pinging, reqVars, timeVars, appVars, connectionTimeout, orphanTimers, connectionPromise, attempts,
                   nAttempts, listeners, closing, reconnecting>>

\* what tryReconnect() returns: success with a fixed message, or the message of
\* the error that mongoose.connect rejected with
ReconnectResult(ok, text) == [success |-> ok, message |-> text]

\* every result of tryReconnect() answered as a success
ReconnectResponseAlwaysSuccess(result, threw, text) ==
    [code |-> 200, status |-> "SUCCESS", text |-> result.message]

\* router.post('/reconnect-db'): the response for the result of tryReconnect(),
\* or for the error it threw
ReconnectResponse(result, threw, text) ==
    IF threw THEN [code |-> 500, status |-> "ERROR", text |-> text]
    ELSE IF result.success THEN [code |-> 200, status |-> "SUCCESS", text |-> result.message]
    ELSE [code |-> 500, status |-> "FAILED", text |-> result.message]

\* router.get('/status'): the response for the status checkDatabaseConnection()
\* returned (sent as the db property of the body), or for the error it threw
StatusResponse(dbStatus, threw, text) ==
    IF threw THEN [code |-> 500, status |-> "DOWN", text |-> text]
    ELSE [code |-> 200, status |-> IF dbStatus.connected THEN "UP" ELSE "DEGRADED",
          text |-> dbStatus.error]

\* what mongoose.connect(undefined) rejects with
UriError == "uri must be a string"

\* the readyState test of tryReconnect() dropped: it always reconnects
AlreadyConnectedNever == FALSE

\* if (mongoose.connection.readyState !== 1) ... else 'MongoDB already connected'
AlreadyConnected == readyState = CONNECTED

\* tryReconnect(), called by the route /reconnect-db, up to
\* `await mongoose.connect(process.env.MONGODB_URL)`; when it returns at once
\* the route answers. With the variable not set the driver refuses the call
\* without starting to connect and the catch block returns its error.
TryReconnect ==
    /\ IF ~AlreadyConnected /\ UrlMissing(mongoUrl) THEN
          /\ LET result == ReconnectResult(FALSE, UriError)
             IN last' = [Pre("tryReconnect") EXCEPT !.path = "done", !.ok = FALSE,
                             !.reply = result,
                             !.resp = ReconnectResponse(result, FALSE, "")]
          /\ UNCHANGED <<reconnecting, readyState>>
       ELSE IF ~AlreadyConnected THEN
          /\ Awaiting < MaxAwaiting
          /\ reconnecting' = reconnecting + 1
          /\ readyState' = StateOnConnectCall
          /\ last' = [Pre("tryReconnect") EXCEPT !.path = "start"]
       ELSE
          /\ LET result == ReconnectResult(TRUE, "MongoDB already connected")
             IN last' = [Pre("tryReconnect") EXCEPT !.path = "done", !.ok = TRUE,
                             !.reply = result,
                             !.resp = ReconnectResponse(result, FALSE, "")]
          /\ UNCHANGED <<reconnecting, readyState>>
    /\ UNCHANGED <<envVars, pinging, reqVars, timeVars, appVars, mgrVars, listeners, closing>>

\* the mongoose.connect of tryReconnect() resolves (ok) or rejects with one of
\* the driver's errors; tryReconnect() returns and the route answers
TryReconnectDone(ok) ==
    /\ reconnecting > 0
    /\ ok \/ readyState # CONNECTED
    /\ reconnecting' = reconnecting - 1
    /\ readyState' = IF ok THEN CONNECTED ELSE DISCONNECTED
    /\ isConnected' = FlagAfterState(IF ok THEN CONNECTED ELSE DISCONNECTED, isConnected)
    /\ \E text \in (IF ok THEN {"Successfully reconnected to MongoDB"} ELSE Causes) :
          LET result == ReconnectResult(ok, text)
          IN last' = [Pre("reconnected") EXCEPT !.path = "done", !.ok = ok,
                          !.reply = result,
                          !.resp = ReconnectResponse(result, FALSE, "")]
    /\ UNCHANGED <<envVars, pinging, reqVars, timeVars, appVars, connectionTimeout, orphanTimers, connectionPromise, attempts,
                   nAttempts, listeners, closing>>

\* driver states outside the four cases of the switch
OtherStates == {4, 99}

\* the first case of the switch taken for every state: all report connected
StatusOfAlwaysUp(state) == [NoStatus EXCEPT !.connected = TRUE, !.state = "connected"]

\* switch (state) of checkDatabaseConnection()
StatusOf(state) ==
    CASE state = DISCONNECTED  -> [NoStatus EXCEPT !.state = "disconnected"]
      [] state = CONNECTED     -> [NoStatus EXCEPT !.connected = TRUE, !.state = "connected"]
      [] state = CONNECTING    -> [NoStatus EXCEPT !.state = "connecting"]
      [] state = DISCONNECTING -> [NoStatus EXCEPT !.state = "disconnecting"]
      [] OTHER                 -> [NoStatus EXCEPT !.state = "unknown"]

\* if (status.connected) await mongoose.connection.db.admin().ping()
NeedsPing(status) == status.connected

\* the object the catch block returns
ErrorStatus(message) == [NoStatus EXCEPT !.state = "error", !.error = message]

\* a failed ping only noted, the status of the switch returned as it is
ResultOfKeepsStatus(status, pinged, pingOk) ==
    IF pinged /\ pingOk THEN [status EXCEPT !.pingSuccess = TRUE] ELSE status

\* what checkDatabaseConnection() returns: the status, with pingSuccess after a
\* ping that resolved, or the catch block's object after a ping that threw
ResultOf(status, pinged, pingOk) ==
    IF ~pinged THEN status
    ELSE IF pingOk THEN [status EXCEPT !.pingSuccess = TRUE]
    ELSE ErrorStatus("ping failed")

\* checkDatabaseConnection(), called by the route /status, up to
\* `await mongoose.connection.db.admin().ping()`: it reads the driver state and,
\* when no ping is due, returns at once and the route answers
CheckDatabaseConnection ==
    LET status == StatusOf(readyState)
        pinged == NeedsPing(status)
        result == ResultOf(status, FALSE, TRUE)
    IN /\ IF pinged THEN
             /\ Awaiting < MaxAwaiting
             /\ pinging' = pinging + 1
             /\ last' = [Pre("check") EXCEPT !.path = "ping", !.status = status,
                             !.pinged = TRUE, !.readRS = readyState]
          ELSE
             /\ pinging' = pinging
             /\ last' = [Pre("check") EXCEPT !.path = "done", !.ok = TRUE,
                             !.status = status, !.pinged = FALSE,
                             !.readRS = readyState,
                             !.result = result,
                             !.resp = StatusResponse(result, FALSE, "")]
       /\ UNCHANGED <<envVars, reqVars, timeVars, appVars, mgrVars, readyState, listeners,
                      closing, reconnecting>>

\* the ping of a checkDatabaseConnection() resolves (pingOk) or rejects: the
\* call returns the status it computed from the state it read before the ping,
\* or the catch block's object, and the route answers
PingDone(pingOk) ==
    LET status == StatusOf(CONNECTED)
        result == ResultOf(status, TRUE, pingOk)
    IN /\ pinging > 0
       /\ pinging' = pinging - 1
       /\ last' = [Pre("checked") EXCEPT !.path = "done", !.ok = pingOk,
                       !.status = status, !.pinged = TRUE,
                       !.readRS = CONNECTED,
                       !.result = result,
                       !.resp = StatusResponse(result, FALSE, "")]
       /\ UNCHANGED <<envVars, reqVars, timeVars, appVars, mgrVars, readyState, listeners,
                      closing, reconnecting>>

Next ==
    \/ \E url \in Urls : Connect(url)
    \/ \E a \in 1..MaxAttempts : AttemptConnected(a)
    \/ \E a \in 1..MaxAttempts, c \in Causes : AttemptFailed(a, c)
    \/ \E a \in 1..MaxAttempts : BackoffDone(a)
    \/ Disconnect
    \/ \E kind \in {"disconnect", "idle"}, ok \in BOOLEAN : CloseDone(kind, ok)
    \/ IdleFire
    \/ DriverLost
    \/ TryReconnect
    \/ \E ok \in BOOLEAN : TryReconnectDone(ok)

Spec == Init /\ [][Next]_vars

\* The health utilities beside the manager and the driver: the two routes of
\* routes/health.js with the connects, disconnects and driver events that
\* change what they read. The idle timer is left out: the utilities neither
\* read nor arm it, and its close acts on the driver as that of disconnect().
HealthNext ==
    \/ \E url \in Urls : Connect(url)
    \/ \E a \in 1..MaxAttempts : AttemptConnected(a)
    \/ \E a \in 1..MaxAttempts, c \in Causes : AttemptFailed(a, c)
    \/ \E a \in 1..MaxAttempts : BackoffDone(a)
    \/ Disconnect
    \/ \E ok \in BOOLEAN : CloseDone("disconnect", ok)
    \/ DriverLost
    \/ TryReconnect
    \/ \E ok \in BOOLEAN : TryReconnectDone(ok)
    \/ CheckDatabaseConnection
    \/ \E pingOk \in BOOLEAN : PingDone(pingOk)

HealthSpec == Init /\ [][HealthNext]_vars

\* The driver answers every connect call and every backoff timer runs out: each
\* `await mongoose.connect(...)` of an attempt eventually resolves or rejects,
\* and each `await new Promise(resolve => setTimeout(resolve, waitTime))` returns.
DriverAnswers ==
    \A a \in 1..MaxAttempts :
        /\ WF_vars(AttemptConnected(a) \/ \E c \in Causes : AttemptFailed(a, c))
        /\ WF_vars(BackoffDone(a))

\* the manager on its own: the calls on it, its timers, and the driver
ManagerNext ==
    \/ \E url \in Urls : Connect(url)
    \/ \E a \in 1..MaxAttempts : AttemptConnected(a)
    \/ \E a \in 1..MaxAttempts, c \in Causes : AttemptFailed(a, c)
    \/ \E a \in 1..MaxAttempts : BackoffDone(a)
    \/ Disconnect
    \/ \E kind \in {"disconnect", "idle"}, ok \in BOOLEAN : CloseDone(kind, ok)
    \/ IdleFire
    \/ DriverLost

FairSpec == Init /\ [][ManagerNext]_vars /\ DriverAnswers

\* what can happen to the application once app.js is loaded: requests, the
\* passing of time, the completions and driver events of the manager, which the
\* application calls through initializeDatabase() only, the reconnect that the
\* route /api/v1/health/reconnect-db triggers, and the SIGINT handler that
\* connectToDatabase() registers
Running == proc = "running"

AppNext ==
    \/ Startup(mongoUrl)
    \/ \E path \in Paths : Request(path, mongoUrl)
    \/ CacheTimePasses
    \/ Running /\ \E a \in 1..MaxAttempts : AttemptConnected(a)
    \/ Running /\ \E a \in 1..MaxAttempts, c \in Causes : AttemptFailed(a, c)
    \/ Running /\ \E a \in 1..MaxAttempts : BackoffDone(a)
    \/ Running /\ \E ok \in BOOLEAN : CloseDone("idle", ok)
    \/ Running /\ IdleFire
    \/ Running /\ DriverLost
    \/ Running /\ TryReconnect
    \/ Running /\ \E ok \in BOOLEAN : TryReconnectDone(ok)
    \/ Sigint
    \/ Running /\ \E ok \in BOOLEAN : SigintCloseDone(ok)
    \/ Running /\ CheckDatabaseConnection
    \/ Running /\ \E pingOk \in BOOLEAN : PingDone(pingOk)

AppSpec == AppInit /\ [][AppNext]_vars

\* ------------------------------------------------------------- claims

\* C1: connect() calls issued while no connection exists and before any of
\* them resolves start exactly one retry loop: the first call (made with a url)
\* starts the loop with its first driver connect call, every call made while a
\* loop is in flight returns that loop's handle and starts nothing, and at no
\* time are two loops in flight.
C1_OneConnectOperation ==
    /\ Cardinality(Loops) <= 1
    /\ \A a \in Loops : connectionPromise = a
    /\ (last.op = "connect" /\ last.preLoops > 0) =>
            /\ last.path = "join"
            /\ last.ret = last.prePromise
            /\ Cardinality(Loops) = last.preLoops
    /\ (last.op = "connect" /\ last.path = "start") =>
            /\ last.preLoops = 0
            /\ Loops = {last.att}
            /\ attempts[last.att].tries = 1

\* a call that arrived while the first call's loop was in flight and joined it
C1_Witness ==
    /\ last.op = "connect"
    /\ last.path = "join"
    /\ last.preLoops = 1
    /\ InFlight(last.ret)
    /\ nAttempts = 1

\* C2: a connect() call that arrives while an attempt is in flight gets that
\* attempt's handle (hence its outcome), and no connect() call is handed the
\* outcome of an attempt that had already finished before the call was made.
C2_NoFinishedOutcome ==
    last.op = "connect" =>
        /\ (last.preLoops > 0 => last.ret = last.prePromise)
        /\ ~last.retSettled

\* C3 as claimed: two failed tries then a success take three driver connect
\* calls and the two delays are base then base*2 (1000ms then 2000ms).
C3_DelaysBaseThenDouble ==
    (last.op = "connected" /\ Len(last.causes) = 2) =>
        /\ last.tries = 3
        /\ last.delays = <<BackoffBase, 2 * BackoffBase>>

\* C3 amended: two failed tries then a success take three driver connect calls
\* and the two delays are base*2 then base*4 (2000ms then 4000ms): the delay is
\* computed from the retry count after it has been incremented.
C3_DelaysDoubleThenQuadruple ==
    (last.op = "connected" /\ Len(last.causes) = 2) =>
        /\ last.tries = 3
        /\ last.delays = <<2 * BackoffBase, 4 * BackoffBase>>
        /\ attempts[last.att].pc = "resolved"

\* an attempt that has just succeeded on its third try
C3_Witness ==
    /\ last.op = "connected"
    /\ Len(last.causes) = 2
    /\ last.tries = 3

\* C4: an attempt rejects with a driver error exactly when maxRetries
\* consecutive driver connect calls of it have failed: the rejection comes with
\* the third failure and carries its cause, and an earlier failure leaves the
\* attempt in flight (in backoff) with its handle still held.
C4_RejectsAfterMaxRetries ==
    /\ \A a \in 1..MaxAttempts :
          /\ (attempts[a].pc = "rejected" /\ attempts[a].err # ConfigError) =>
                (attempts[a].tries = maxRetries /\ attempts[a].retryCount = maxRetries)
          /\ InFlight(a) =>
                /\ attempts[a].retryCount < maxRetries
                /\ Len(attempts[a].causes) = attempts[a].retryCount
                /\ attempts[a].tries <= maxRetries
    /\ last.op = "failed" =>
          /\ last.tries = maxRetries
          /\ Len(last.causes) = maxRetries
          /\ last.err = last.causes[maxRetries]
          /\ attempts[last.att].pc = "rejected"
          /\ attempts[last.att].err = last.err
    /\ last.op = "retry" =>
          /\ Len(last.causes) < maxRetries
          /\ attempts[last.att].pc = "backoff"
          /\ last.prePromise # 0 => connectionPromise = last.prePromise

\* an attempt rejected by its third failure, whose cause differs from the first's
C4_Witness ==
    /\ last.op = "failed"
    /\ Len(last.causes) = maxRetries
    /\ last.causes[1] # last.causes[maxRetries]
    /\ attempts[last.att].err = last.causes[maxRetries]

\* C5: connect() with an absent or empty url fails with the configuration
\* error in every manager state, and does nothing else: it starts no driver
\* connect call and leaves the driver's state and listeners as they were.
C5_MissingUrlAlwaysConfigError ==
    (last.op = "connect" /\ last.url = "") =>
        /\ last.path = "config"
        /\ attempts[last.ret].err = ConfigError
        /\ ListenerCount = last.preListeners
        /\ readyState = last.preRS

\* C6: once a connect() has succeeded, every connect() made while the flag is
\* connected and the driver's state is connected returns the existing session
\* (the cache-hit path) and starts no driver connect call.
C6_ConnectedMeansCacheHit ==
    (last.op = "connect" /\ HadSuccess /\ last.preFlag /\ last.preRS = CONNECTED) =>
        last.path = "hit"

\* C7: connect() called while no attempt handle is held, the flag says
\* connected and the driver's state is disconnected or disconnecting discards
\* the flag, detaches every listener, issues the driver disconnect and never
\* returns the session; called with a url it starts a fresh attempt with its
\* first driver connect call.
C7_StaleSessionDiscarded ==
    (/\ last.op = "connect"
     /\ last.prePromise = 0
     /\ last.preFlag
     /\ last.preRS \in {DISCONNECTED, DISCONNECTING}) =>
        /\ ~isConnected
        /\ \A e \in Events : listeners[e] = 0
        /\ last.cleaned
        /\ last.path \in {"start", "config"}
        /\ last.url # "" =>
              /\ last.path = "start"
              /\ InFlight(last.att)
              /\ connectionPromise = last.att
              /\ attempts[last.att].tries = 1
              /\ readyState = CONNECTING

\* a connect(url) that found the flag connected and the driver not, and started afresh
C7_Witness ==
    /\ last.op = "connect"
    /\ last.prePromise = 0
    /\ last.preFlag
    /\ last.preRS \in {DISCONNECTED, DISCONNECTING}
    /\ last.path = "start"
    /\ last.preListeners = 3
    /\ HadSuccess

\* C8: outside serverless mode, the idle timer firing while the manager is
\* marked connected, with no connect() since it was armed, closes the session,
\* and once that close has completed the manager is Disconnected, so that the
\* next connect() is not a cache hit.
C8_IdleCloseAlwaysDisconnects ==
    /\ (last.op = "idleFire" /\ last.preFlag /\ last.sinceUse >= MAX_IDLE_TIME) =>
          (last.closeIssued /\ closing.idle > 0)
    /\ last.op = "idleClosed" => (~isConnected /\ ~IsCacheHit)

\* C9: in serverless mode no idle timer is ever pending.
C9_NoIdleTimerInServerless ==
    prod => (PendingTimers = 0 /\ connectionTimeout = "null")

\* serverless mode, a cache-hit connect() after a successful one
C9_Witness ==
    /\ prod
    /\ last.op = "connect"
    /\ last.path = "hit"
    /\ HadSuccess

\* C10: when disconnect() completes no idle timer is pending and the manager
\* is Disconnected.
C10_DisconnectAlwaysDisconnects ==
    (last.op = "disconnected" \/ (last.op = "disconnect" /\ last.path = "done")) =>
        (PendingTimers = 0 /\ ~isConnected)

\* C11 as claimed: disconnect() called while the manager is not marked
\* connected completes at once without a close call and changes nothing, the
\* idle timer included.
C11_DisconnectedDisconnectChangesNothing ==
    (last.op = "disconnect" /\ ~last.preFlag) =>
        /\ last.path = "done"
        /\ last.ok
        /\ ~last.closeIssued
        /\ ClosingCount = last.preClosing
        /\ isConnected = last.preFlag
        /\ connectionPromise = last.prePromise
        /\ readyState = last.preRS
        /\ PendingTimers = last.preTimers

\* C11 amended: disconnect() called while the manager is not marked connected
\* completes at once without raising, issues no close call and leaves the
\* flag, the attempt handle, the driver state and the listeners as they were;
\* the one thing it still does is cancel an idle timer that is pending.
C11_DisconnectedDisconnectOnlyCancelsTimer ==
    (last.op = "disconnect" /\ ~last.preFlag) =>
        /\ last.path = "done"
        /\ last.ok
        /\ ~last.closeIssued
        /\ ClosingCount = last.preClosing
        /\ isConnected = last.preFlag
        /\ connectionPromise = last.prePromise
        /\ Cardinality(Loops) = last.preLoops
        /\ readyState = last.preRS
        /\ ListenerCount = last.preListeners
        /\ PendingTimers = 0
        /\ (connectionTimeout = "null") = (last.preHandle = "null")

\* a second disconnect() after the first one has completed
C11_Witness ==
    /\ last.op = "disconnect"
    /\ ~last.preFlag
    /\ last.path = "done"
    /\ last.preHandle = "dead"
    /\ HadSuccess

\* C14: tryReconnect() called while the driver state is connected returns
\* success, calls no driver connect and changes nothing.
C14_ReconnectWhenConnectedIsNoop ==
    (last.op = "tryReconnect" /\ last.preRS = CONNECTED) =>
        /\ last.path = "done"
        /\ last.ok
        /\ reconnecting = last.preReconnecting
        /\ readyState = last.preRS
        /\ isConnected = last.preFlag
        /\ connectionPromise = last.prePromise
        /\ Cardinality(Loops) = last.preLoops
        /\ PendingTimers = last.preTimers
        /\ ListenerCount = last.preListeners
        /\ ClosingCount = last.preClosing

\* tryReconnect() on a driver the manager has connected
C14_Witness ==
    /\ last.op = "tryReconnect"
    /\ last.preRS = CONNECTED
    /\ last.preFlag
    /\ last.ok

\* driver connect calls in progress in the whole process
ConnectCallsInProgress ==
    Cardinality({a \in 1..MaxAttempts : attempts[a].pc = "connecting"}) + reconnecting

\* C15: tryReconnect() on a driver that is not connected goes through the
\* manager's connect(): it holds (or joins) the manager's attempt handle, at
\* most one driver connect call is in progress in the whole process, and a
\* reconnect that succeeded leaves the manager's flag connected.
C15_ReconnectGoesThroughManager ==
    /\ ConnectCallsInProgress <= 1
    /\ (last.op = "tryReconnect" /\ last.path = "start") => connectionPromise # 0
    /\ (last.op = "reconnected" /\ last.ok) => isConnected

\* C19: an idle timer that fires while the manager is marked disconnected does
\* nothing: no close call, and flag, attempt handle and driver are unchanged.
C19_IdleFireWhenDisconnectedIsNoop ==
    (last.op = "idleFire" /\ ~last.preFlag) =>
        /\ last.path = "done"
        /\ ~last.closeIssued
        /\ ClosingCount = last.preClosing
        /\ isConnected = last.preFlag
        /\ connectionPromise = last.prePromise
        /\ Cardinality(Loops) = last.preLoops
        /\ readyState = last.preRS
        /\ ListenerCount = last.preListeners

\* the idle timer of a session the driver has lost meanwhile fires
C19_Witness ==
    /\ last.op = "idleFire"
    /\ ~last.preFlag
    /\ last.preTimers = 1
    /\ PendingTimers = 0
    /\ HadSuccess

\* nothing is in progress: no attempt, no close, no reconnect
Quiescent == Loops = {} /\ ClosingCount = 0 /\ reconnecting = 0

\* C20: whenever no connect attempt is in flight and no close is in progress,
\* isConnected is true exactly when the driver's state is connected.
C20_FlagMirrorsDriver ==
    Quiescent => (isConnected <=> readyState = CONNECTED)

\* the status string documented for each driver state
DocumentedState(state) ==
    IF state = 0 THEN "disconnected"
    ELSE IF state = 1 THEN "connected"
    ELSE IF state = 2 THEN "connecting"
    ELSE IF state = 3 THEN "disconnecting"
    ELSE "unknown"

\* a checkDatabaseConnection() call has just returned: at once, or after its ping
CheckReturned == (last.op = "check" /\ last.path = "done") \/ last.op = "checked"

\* C12: checkDatabaseConnection() maps the driver state it reads to its status
\* string (0 disconnected, 1 connected, 2 connecting, 3 disconnecting, anything
\* else unknown), reports connected = true only for state 1, and sends the ping
\* exactly when the driver state is connected.
C12_StatusMapping ==
    /\ \A s \in 0..3 \cup OtherStates :
          /\ StatusOf(s).state = DocumentedState(s)
          /\ StatusOf(s).connected <=> s = 1
          /\ NeedsPing(StatusOf(s)) <=> s = 1
    /\ last.op = "check" =>
          /\ last.readRS = last.preRS
          /\ last.status.state = DocumentedState(last.readRS)
          /\ last.pinged <=> last.readRS = 1
          /\ last.path = "ping" <=> last.pinged
    /\ CheckReturned =>
          /\ last.status.state = DocumentedState(last.readRS)
          /\ last.status.connected <=> last.readRS = 1
          /\ last.pinged <=> last.readRS = 1
          /\ last.result.connected => last.readRS = 1
          /\ (~last.pinged \/ last.ok) =>
                /\ last.result.state = last.status.state
                /\ last.result.connected = last.status.connected

\* a health check of a driver that is connecting: no ping, not connected
C12_Witness ==
    /\ last.op = "check"
    /\ last.path = "done"
    /\ last.readRS = CONNECTING
    /\ last.result.state = "connecting"
    /\ ~last.pinged

\* the frame of a health check: the step that returns changes nothing of manager
\* or driver
CheckChangesNothing ==
    /\ isConnected = last.preFlag
    /\ connectionPromise = last.prePromise
    /\ Cardinality(Loops) = last.preLoops
    /\ PendingTimers = last.preTimers
    /\ connectionTimeout = last.preHandle
    /\ readyState = last.preRS
    /\ ListenerCount = last.preListeners
    /\ ClosingCount = last.preClosing
    /\ reconnecting = last.preReconnecting

\* C13 as claimed: with the driver connected and the ping failing, the health
\* check still reports connected = true and state connected, and changes no
\* manager or driver state.
C13_PingFailureStillConnected ==
    (last.op = "checked" /\ last.readRS = CONNECTED /\ ~last.ok) =>
        /\ last.result.connected
        /\ last.result.state = "connected"
        /\ CheckChangesNothing

\* C13 amended: with the driver connected and the ping failing, the health
\* check reports connected = false and state error together with the error
\* message, sets no pingSuccess, and changes no manager or driver state.
C13_PingFailureReportsError ==
    /\ last.op = "check" => CheckChangesNothing
    /\ (last.op = "checked" /\ last.readRS = CONNECTED /\ ~last.ok) =>
          /\ last.pinged
          /\ ~last.result.connected
          /\ last.result.state = "error"
          /\ last.result.error # ""
          /\ ~last.result.pingSuccess
          /\ CheckChangesNothing

\* a health check whose ping failed on a session the manager holds connected
C13_Witness ==
    /\ last.op = "checked"
    /\ last.readRS = CONNECTED
    /\ last.preRS = CONNECTED
    /\ last.preFlag
    /\ last.pinged
    /\ ~last.ok

\* listeners the connection carries for event e
ListenersOn(e) == listeners[e] + appListeners[e]

\* C16: whatever the sequence of successful connects, cache hits, stale-session
\* reconnects and connectToDatabase() calls, the connection carries at most one
\* listener for each of 'connected', 'disconnected' and 'error'.
C16_AtMostOneListenerPerEvent ==
    \A e \in Events : ListenersOn(e) <= 1

\* an attempt connects with a connectToDatabase() call waiting for it: the
\* manager has installed its three listeners and the continuation of
\* connectToDatabase(), finding them, has added none
C16_Witness ==
    /\ last.op = "connected"
    /\ last.served > 0
    /\ appConnected
    /\ \A e \in Events : ListenersOn(e) = 1

\* C18: outside serverless mode every successful connect and every cache-hit
\* connect() cancels the pending idle timer and arms a new one: at most one idle
\* timer is pending at any time, a use leaves exactly one pending timer, armed
\* at that use, and the timer that fires was armed at the latest successful or
\* cache-hit connect(), so that it fires no earlier than MAX_IDLE_TIME after it.
C18_IdleTimerRearmedOnUse ==
    /\ PendingTimers <= 1
    /\ (~prod /\ (last.op = "connected" \/ (last.op = "connect" /\ last.path = "hit"))) =>
          /\ PendingTimers = 1
          /\ connectionTimeout = "live"
          /\ ~usedSinceArmed
    /\ last.op = "idleFire" => last.sinceUse >= MAX_IDLE_TIME

\* a cache hit while the timer of an earlier use is pending: the timer is
\* replaced by the one of this use
C18_Witness ==
    /\ last.op = "connect"
    /\ last.path = "hit"
    /\ ~prod
    /\ last.preTimers = 1
    /\ last.preHandle = "live"
    /\ connectionTimeout = "live"
    /\ ~usedSinceArmed
    /\ PendingTimers = 1

\* the storage-requiring requests: those under /api/v1
UnderApi(path) == path \in {"/api/v1/auth/login", "/api/v1/unknown"}

\* C17: no request under /api/v1 reaches its route handler unless the database
\* middleware ran first for that request and the connection was established;
\* when the connection cannot be established the request is answered with 503
\* and the handler is not run.
C17_HandlerOnlyAfterMiddleware ==
    (last.op = "request" /\ UnderApi(last.route)) =>
        /\ IndexOf(last.layers, "router") > 0 /\ Answers("router", last.route) =>
              /\ IndexOf(last.layers, "dbMiddleware") > 0
              /\ IndexOf(last.layers, "dbMiddleware") < IndexOf(last.layers, "router")
              /\ appConnected
        /\ last.outcome = "false" =>
              /\ last.code = 503
              /\ IndexOf(last.layers, "router") = 0

\* C21: provided the driver answers every connect call and every backoff delay
\* returns, every started attempt eventually finishes, by success or by
\* exhaustion; it never makes more than maxRetries driver connect calls; and
\* when it finishes it has updated the shared state -- the in-flight handle is
\* empty, the flag is true after a success and false after an exhaustion --
\* whatever else was called meanwhile and whether or not a caller waits for it.
C21_AttemptEventuallyFinishes ==
    /\ \A a \in 1..MaxAttempts : InFlight(a) ~> Settled(a)
    /\ [](\A a \in 1..MaxAttempts : attempts[a].tries <= maxRetries)
    /\ [](last.op = "connected" => (isConnected /\ connectionPromise = 0
                                    /\ attempts[last.att].pc = "resolved"))
    /\ [](last.op = "failed" => (~isConnected /\ connectionPromise = 0
                                 /\ attempts[last.att].pc = "rejected"))

\* an attempt started by a connect() that nobody waits for finishes by
\* exhaustion with its third failed driver call
C21_Witness ==
    /\ last.op = "failed"
    /\ last.tries = maxRetries
    /\ last.prePromise = last.att
    /\ connectionPromise = 0
    /\ waiters = 0

\* the error texts that come from the driver or the manager
InternalErrors == Causes \cup {ConfigError, UriError, "ping failed"}

\* C22: every response an endpoint sends because a database connection failure
\* surfaced to it -- a reconnect the driver rejected, a health check whose ping
\* failed -- is a 503 whose body carries no error text of the driver or the
\* manager.
C22_FailureAnswered503Generic ==
    /\ (last.op = "reconnected" /\ ~last.ok) =>
          (last.resp.code = 503 /\ last.resp.text \notin InternalErrors)
    /\ (last.op = "checked" /\ ~last.ok) =>
          (last.resp.code = 503 /\ last.resp.text \notin InternalErrors)

\* C23: the health endpoint answers UP exactly when checkDatabaseConnection()
\* reports connected = true and DEGRADED when it reports connected = false, and
\* DOWN only when the check raises; the reconnect endpoint answers SUCCESS
\* exactly when tryReconnect() reports success and FAILED when it reports
\* failure, and ERROR only when tryReconnect() raises.
C23_EndpointStatusFollowsResult ==
    /\ \A st \in {StatusOf(n) : n \in 0..3} \cup {ErrorStatus("ping failed")} :
          /\ StatusResponse(st, FALSE, "").status = IF st.connected THEN "UP" ELSE "DEGRADED"
          /\ StatusResponse(st, TRUE, "boom").status = "DOWN"
    /\ \A ok \in BOOLEAN :
          /\ ReconnectResponse(ReconnectResult(ok, "m"), FALSE, "").status
                = IF ok THEN "SUCCESS" ELSE "FAILED"
          /\ ReconnectResponse(ReconnectResult(ok, "m"), TRUE, "boom").status = "ERROR"
    /\ CheckReturned =>
          /\ last.resp.status = "UP" <=> last.result.connected
          /\ last.resp.status = "DEGRADED" <=> ~last.result.connected
    /\ last.op \in {"reconnected", "tryReconnect"} /\ last.path = "done" =>
          /\ last.resp.status = "SUCCESS" <=> last.reply.success
          /\ last.resp.status = "FAILED" <=> ~last.reply.success
          /\ last.reply.success = last.ok

\* the reconnect endpoint answers FAILED for a reconnect the driver rejected
C23_Witness ==
    /\ last.op = "reconnected"
    /\ ~last.ok
    /\ last.resp.status = "FAILED"
    /\ last.resp.code = 500

\* doubling up to the cap
Doubled(d) == IF 2 * d > BackoffCap THEN BackoffCap ELSE 2 * d

\* each delay is at most the cap and is the double of the one before it
DelaysDouble(delays) ==
    /\ \A i \in 1..Len(delays) : delays[i] > 0 /\ delays[i] <= BackoffCap
    /\ \A i \in 1..(Len(delays) - 1) : delays[i + 1] = Doubled(delays[i])

\* C24: within one connect attempt a backoff delay is taken only between a
\* failed try and the next try: while a try is running there is one delay less
\* than tries, while the loop waits there are as many delays as tries, every
\* delay is at most the cap (10000ms) and the double of the previous one, and
\* the failure that exhausts the retries surfaces without a further delay.
C24_BackoffOnlyBetweenTries ==
    /\ \A n \in 1..6 : WaitTime(n) <= BackoffCap /\ WaitTime(n + 1) = Doubled(WaitTime(n))
    /\ \A a \in 1..MaxAttempts :
          /\ attempts[a].pc = "connecting" => Len(attempts[a].delays) = attempts[a].tries - 1
          /\ attempts[a].pc = "backoff" =>
                /\ Len(attempts[a].delays) = attempts[a].tries
                /\ attempts[a].tries < maxRetries
          /\ DelaysDouble(attempts[a].delays)
    /\ last.op = "retry" =>
          /\ Len(last.delays) = Len(last.causes)
          /\ DelaysDouble(last.delays)
    /\ last.op = "failed" =>
          /\ Len(last.causes) = maxRetries
          /\ Len(last.delays) = maxRetries - 1
          /\ DelaysDouble(last.delays)
          /\ attempts[last.att].pc = "rejected"

\* an attempt failed for the third time after two delays, the second the double
\* of the first, and surfaced the error at once
C24_Witness ==
    /\ last.op = "failed"
    /\ Len(last.causes) = maxRetries
    /\ Len(last.delays) = 2
    /\ last.delays[2] = 2 * last.delays[1]
    /\ attempts[last.att].pc = "rejected"

\* C25: after a connect attempt has ended (success, retry exhaustion or the
\* configuration error of a missing url) the in-flight handle is empty and, on
\* failure, the flag is false; so a later connect() with a valid url, made when
\* no attempt is running and no session is cached, starts a new attempt at its
\* first try and is never handed the failure of a past attempt.
C25_EndedAttemptLeavesNoTrace ==
    /\ ~Settled(connectionPromise)
    /\ (last.op = "failed" \/ (last.op = "connect" /\ last.path = "config")) => ~isConnected
    /\ (/\ last.op = "connect"
        /\ ~UrlMissing(last.url)
        /\ last.preLoops = 0
        /\ ~(last.preFlag /\ last.preRS = CONNECTED)) =>
          /\ last.path = "start"
          /\ last.tries = 1
          /\ InFlight(last.ret)

\* a close() of the manager has just resolved
CloseCompleted == last.op \in {"idleClosed", "disconnected"} /\ last.ok

\* C26: when connect() is called while a close started by disconnect() or by
\* the idle timer is in progress, and the new attempt has connected before the
\* close completes (the driver was connected and flagged connected, with no
\* attempt in flight, when the close resolved), then after the close the flag
\* is still connected and the driver still holds the new session: the
\* completion of the older close does not mark the new session as
\* disconnected. On the manager alone such a state arises only from a
\* connect() made during the close.
C26_OldCloseKeepsNewSession ==
    (/\ CloseCompleted
     /\ last.preRS = CONNECTED
     /\ last.preFlag
     /\ last.prePromise = 0) => (isConnected /\ readyState = CONNECTED)

\* disconnect() has just returned: at once when the flag was false, or when its
\* close() resolved or rejected
DisconnectCompleted ==
    \/ last.op = "disconnect" /\ last.path = "done"
    \/ last.op = "disconnected"

\* C27: once disconnect() has completed, the manager does not become connected
\* and no idle timer becomes pending unless connect() is called: every step
\* taken right after the completion leaves the flag false and arms no timer.
\* (connect() itself never sets the flag nor arms a timer while the flag is false.)
C27_DisconnectIsFinal ==
    [][(DisconnectCompleted /\ ~isConnected) =>
          (~isConnected' /\ PendingTimers' <= PendingTimers)]_vars

\* C28: after the session has been lost following a successful initialization
\* (the application holds its connected flag, the driver is disconnected, the
\* manager's flag is false and no attempt is in flight), a request under
\* /api/v1 makes the request layer call the manager's connect() before it is
\* handled: the call starts a new attempt (or fails on a missing url), it is not
\* answered from the cached flag and not left to the handler unchecked.
C28_LostSessionReconnectsOnRequest ==
    (/\ last.op = "request"
     /\ UnderApi(last.route)
     /\ appConnected
     /\ last.preRS = DISCONNECTED
     /\ ~last.preFlag
     /\ last.prePromise = 0) =>
        /\ last.path \in {"start", "config"}
        /\ IndexOf(last.layers, "router") = 0
====
